---- MODULE Spec2Model ----
(***************************************************************************)
(* A model of deal.II's AlignedVector<T> (include/deal.II/base/            *)
(* aligned_vector.h): several containers living on one heap of aligned     *)
(* blocks.  Pointers are byte addresses; a block's storage is a sequence   *)
(* of slots; a slot holds a value of T or Raw (never written, or, for a    *)
(* non-trivial T, holding no live object).                                 *)
(***************************************************************************)
EXTENDS Integers, Sequences, FiniteSets, TLC

\* ------------------------------------------------------------------ bounds
MaxN      == 2      \* largest size / index / count argument and largest size()
MaxVal    == 1      \* element values are 0..MaxVal (0 is T())
MaxPush   == 33     \* longest run of consecutive push_back calls
MaxLen    == 5      \* longest range handed to a bulk primitive on its own
\* The byte budget of a parallel chunk, 160000 in the source, scaled down so
\* that ranges of a few elements reach the grain size.
ParallelGrainBytes == 4

\* ------------------------------------------------------- program constants
SizeofT        == 4     \* sizeof(T)
Alignment      == 64    \* posix_memalign(..., 64, ...)
MinPushBackCap == 16    \* push_back: std::max(2 * capacity(), 16)
ScenarioSize   == 4     \* the test's container of four elements
MarkedIndex    == 2     \* the test's a[2] = true

\* The container objects of the program, and the number of blocks the
\* allocator manages: one per container and one more, because reserve holds
\* the old and the new block of a container at the same time.
Vecs      == {"a", "b"}
NoVecId   == "-"
MaxBlocks == Cardinality(Vecs) + 1

T_Values == 0..MaxVal
T_Default == 0          \* the value of T(), all bytes zero for a trivial T
Raw      == -1          \* slot content that is not an object of T
NULL     == 0           \* nullptr

Max(a, b) == IF a >= b THEN a ELSE b

\* Largest capacity any block of the model can get, and the distance between
\* the start addresses of two blocks (a multiple of the alignment).
MaxCap      == Max(Max(MinPushBackCap, 2 * MaxN), 2 * MaxPush)
BlockStride == Alignment * ((MaxCap * SizeofT) \div Alignment + 1)

VARIABLES
  vec,         \* vec[c]: the members of container c (and whether c exists)
  heap,        \* heap[b]: block b of the allocator
  is_trivial,  \* std::is_trivial<T>::value
  err,         \* the faults of the last operation (assertions, lifetimes)
  recording,   \* whether this run keeps the record last
  last,        \* the operation performed by the last step, with its inputs
  run,         \* the run of consecutive push_back calls on a new container
  archive,     \* the archive save wrote last, as load will read it
  scenario,    \* the position of the test scenario and the values it uses
  par,         \* the bulk primitive in progress and its subranges
  twin         \* the containers and the heap of the same program run with
               \* the other kind of T

vars ==
  <<vec, heap, is_trivial, err, recording, last, run, archive, scenario, par,
    twin>>

\* ----------------------------------------------------------------- heap
FreeBlock == [status |-> "free", cap |-> 0, data |-> <<>>]

\* an allocator that aligns a block to sizeof(T) only
BlockBase_element_aligned(b) == b * BlockStride + SizeofT

\* The address posix_memalign returns for block b.
BlockBase(b) == b * BlockStride
BlockOf(p)   == p \div BlockStride
\* 1-based slot index of the element at address p within its block.
Slot(p)      == ((p % BlockStride) \div SizeofT) + 1

\* The allocator hands out the free block with the lowest address; a block
\* that was released can be handed out again.
CanAllocate(w) == \E b \in 1..MaxBlocks : w.heap[b].status = "free"
FreshBlock(w)  ==
  CHOOSE b \in 1..MaxBlocks :
    /\ w.heap[b].status = "free"
    /\ \A a \in 1..(b - 1) : w.heap[a].status # "free"

\* Utilities::System::posix_memalign(&ptr, 64, n * sizeof(T)): block b becomes
\* an allocated block of n uninitialised slots.
posix_memalign(w, b, n) ==
  [w EXCEPT !.heap[b] = [status |-> "allocated", cap |-> n,
                         data |-> [i \in 1..n |-> Raw]],
            !.allocated = @ + 1]

\* the objects of a non-trivial T that live in block b
ObjectsIn(w, b) ==
  IF is_trivial THEN 0
  ELSE Cardinality({i \in 1..w.heap[b].cap : w.heap[b].data[i] # Raw})

\* std::free(ptr): releasing anything but the start of an allocated block
\* (a block released before, an address inside a block) is a fault
free(w, p) ==
  LET b == BlockOf(p) IN
  IF b \in 1..MaxBlocks /\ p = BlockBase(b) /\ w.heap[b].status = "allocated"
    THEN [w EXCEPT !.heap[b] = FreeBlock, !.freed = @ + 1,
                   !.leaked = @ + ObjectsIn(w, b)]
    ELSE [w EXCEPT !.err = @ \cup {"bad_free"}]

\* count slots starting at p lie inside one allocated block
InBlock(w, p, count) ==
  LET b == BlockOf(p) IN
  /\ b \in 1..MaxBlocks
  /\ w.heap[b].status = "allocated"
  /\ Slot(p) + count - 1 <= w.heap[b].cap

\* the values of count slots starting at p
peek(w, p, count) ==
  [i \in 1..count |->
     IF InBlock(w, p, i) THEN w.heap[BlockOf(p)].data[Slot(p) + i - 1] ELSE Raw]

\* raw store of the values vals into the slots starting at p
poke(w, p, vals) ==
  IF Len(vals) = 0 THEN w
  ELSE IF ~InBlock(w, p, Len(vals)) THEN [w EXCEPT !.err = @ \cup {"bad_access"}]
  ELSE LET b == BlockOf(p)
           s == Slot(p)
       IN [w EXCEPT !.heap[b].data =
             [i \in DOMAIN @ |-> IF i >= s /\ i < s + Len(vals)
                                   THEN vals[i - s + 1] ELSE @[i]]]

Flag(w, cond, tag) == IF cond THEN [w EXCEPT !.err = @ \cup {tag}] ELSE w

\* A constructor of T has thrown and the exception is on its way out.
Thrown(w) == "T_exception" \in w.err

\* How many of count constructions in a row complete: all of them, or
\* w.fuel when the constructor of T throws after w.fuel more constructions
\* (w.fuel < 0: it never throws).
Constructed(w, count) ==
  IF w.fuel >= 0 /\ w.fuel < count THEN w.fuel ELSE count

\* new (p + i) T(vals[i]): placement construction of objects of a non-trivial
\* T, up to the construction that throws.  The slot holds an object
\* afterwards, also when the value it was constructed from was read from a
\* slot without an object: that value is indeterminate, any value of T, the
\* i-th of them w.indeterminate[i] (positions beyond MaxN repeat the choice).
construct(w, p, vals) ==
  LET given(i) == IF vals[i] = Raw
                    THEN w.indeterminate[((i - 1) % MaxN) + 1]
                    ELSE vals[i]
      spend(w1, k) ==
        [Flag(w1, k < Len(vals), "T_exception")
           EXCEPT !.fuel = IF @ < 0 THEN @ ELSE @ - k]
      build(w1, k) ==
        poke(Flag(w1, \E i \in 1..k : peek(w1, p, k)[i] # Raw,
                  "construct_over_live"),
             p, [i \in 1..k |-> given(i)])
  IN spend(build(w, Constructed(w, Len(vals))), Constructed(w, Len(vals)))

\* The destructor calls on count slots from p upwards, in that order.
Destructions(p, count) ==
  [i \in 1..count |-> [ev |-> "destroy", at |-> p + (i - 1) * SizeofT]]

\* (p + i)->~T(): the slots hold no object afterwards
destroy(w, p, count) ==
  poke(Flag([w EXCEPT !.log = @ \o Destructions(p, count)],
            \E i \in 1..count : peek(w, p, count)[i] = Raw, "destroy_dead"),
       p, [i \in 1..count |-> Raw])

\* p[i] = vals[i]: copy assignment to objects of a non-trivial T; a value
\* read from a slot without an object is indeterminate, as in construct
assign(w, p, vals) ==
  poke(Flag(w, \E i \in 1..Len(vals) : peek(w, p, Len(vals))[i] = Raw,
            "assign_to_dead"),
       p, [i \in 1..Len(vals) |->
             IF vals[i] = Raw THEN w.indeterminate[((i - 1) % MaxN) + 1]
                              ELSE vals[i]])

\* ------------------------------------------------------------ observers
\* AlignedVector::size
size(w, c) == (w.vec[c].used_elements_end - w.vec[c].elements) \div SizeofT
\* AlignedVector::capacity
capacity(w, c) ==
  (w.vec[c].allocated_elements_end - w.vec[c].elements) \div SizeofT
\* the elements [begin(), end()) as a sequence
contents(w, c) == peek(w, w.vec[c].elements, size(w, c))

\* ------------------------------------------------- bulk-operation engine
\* AlignedVectorCopy<T>(source_begin, source_begin + count, destination)
AlignedVectorCopy(w, source, count, destination) ==
  IF count = 0 THEN w
  ELSE IF is_trivial
    THEN poke(w, destination, peek(w, source, count))            \* memcpy
    ELSE construct(w, destination, peek(w, source, count))

\* a move whose loop stops one element early
AlignedVectorMove_one_short(w, source, count, destination) ==
  IF count = 0 THEN w
  ELSE LET w1 == IF is_trivial
                   THEN poke(w, destination, peek(w, source, count - 1))
                   ELSE destroy(construct(w, destination,
                                          peek(w, source, count - 1)),
                                source, count - 1)
       IN [w1 EXCEPT !.moved = @ + count]

\* AlignedVectorMove<T>(source_begin, source_begin + count, destination);
\* moved counts the elements whose move completed: all of them, or those
\* before the move constructor of T threw.
AlignedVectorMove(w, source, count, destination) ==
  IF count = 0 THEN w
  ELSE LET w1 == IF is_trivial
                   THEN poke(w, destination, peek(w, source, count)) \* memcpy
                   ELSE destroy(construct(w, destination,
                                          peek(w, source, count)),
                                source, Constructed(w, count))
       IN [w1 EXCEPT !.moved = @ + IF is_trivial THEN count
                                                 ELSE Constructed(w, count)]

\* a zero detection that is also applied when T is long double
trivial_element_any_type(element) == is_trivial /\ element = 0

\* AlignedVectorSet::trivial_element: T is trivial and not long double
\* (par.long_double says whether it is), and memcmp finds all bytes of the
\* element zero.
trivial_element(element) ==
  is_trivial /\ ~par.long_double /\ element = 0

\* AlignedVectorSet::copy_construct_or_assign on count elements: placement
\* new T(element) when initialize_memory, assignment otherwise
copy_construct_or_assign(w, initialize_memory, count, element, destination) ==
  IF is_trivial
    THEN poke(w, destination, [i \in 1..count |-> element])
    ELSE IF initialize_memory
      THEN construct(w, destination, [i \in 1..count |-> element])
      ELSE assign(w, destination, [i \in 1..count |-> element])

\* AlignedVectorSet<T, initialize_memory>(count, element, destination)
AlignedVectorSet(w, initialize_memory, count, element, destination) ==
  IF count = 0 THEN w
  ELSE IF is_trivial /\ trivial_element(element)
    THEN poke(w, destination, [i \in 1..count |-> 0])                \* memset
    ELSE copy_construct_or_assign(w, initialize_memory, count, element,
                                  destination)

\* a default initialisation whose raw-byte path leaves the memory as it is
AlignedVectorDefaultInitialize_no_memset(w, initialize_memory, count, destination) ==
  IF count = 0 \/ is_trivial THEN w
  ELSE IF initialize_memory
    THEN construct(w, destination, [i \in 1..count |-> T_Default])
    ELSE assign(w, destination, [i \in 1..count |-> T_Default])

\* AlignedVectorDefaultInitialize<T, initialize_memory>(count, destination)
AlignedVectorDefaultInitialize(w, initialize_memory, count, destination) ==
  IF count = 0 THEN w
  ELSE IF is_trivial
    THEN poke(w, destination, [i \in 1..count |-> 0])                \* memset
    ELSE IF initialize_memory
      THEN construct(w, destination, [i \in 1..count |-> T_Default])
      ELSE assign(w, destination, [i \in 1..count |-> T_Default])

\* minimum_parallel_grain_size = 160000 / sizeof(T) + 1
minimum_parallel_grain_size == ParallelGrainBytes \div SizeofT + 1

\* AlignedVectorCopy::apply_to_subrange(begin, end)
AlignedVectorCopy_apply_to_subrange(w, source, destination, begin, end) ==
  AlignedVectorCopy(w, source + begin * SizeofT, end - begin,
                    destination + begin * SizeofT)

\* a subrange loop that runs one element too far
AlignedVectorMove_subrange_one_more(w, source, destination, begin, end) ==
  AlignedVectorMove(w, source + begin * SizeofT, end + 1 - begin,
                    destination + begin * SizeofT)

\* AlignedVectorMove::apply_to_subrange(begin, end)
AlignedVectorMove_apply_to_subrange(w, source, destination, begin, end) ==
  AlignedVectorMove(w, source + begin * SizeofT, end - begin,
                    destination + begin * SizeofT)

\* AlignedVectorSet::apply_to_subrange(begin, end)
AlignedVectorSet_apply_to_subrange(w, initialize_memory, element, destination, begin, end) ==
  AlignedVectorSet(w, initialize_memory, end - begin, element,
                   destination + begin * SizeofT)

\* AlignedVectorDefaultInitialize::apply_to_subrange(begin, end)
AlignedVectorDefaultInitialize_apply_to_subrange(w, initialize_memory, destination, begin, end) ==
  AlignedVectorDefaultInitialize(w, initialize_memory, end - begin,
                                 destination + begin * SizeofT)

\* ------------------------------------------------------------ container
\* The members of a default-constructed container.
EmptyVec == [exists |-> TRUE, elements |-> NULL, deleter |-> "assert",
             used_elements_end |-> NULL, allocated_elements_end |-> NULL]
NoVec    == [exists |-> FALSE, elements |-> NULL, deleter |-> "assert",
             used_elements_end |-> NULL, allocated_elements_end |-> NULL]

\* a reset that drops the old pointer without handing it to the deleter
reset_elements_no_release(w, c, p, d) ==
  [w EXCEPT !.vec[c].elements = p, !.vec[c].deleter = d]

\* std::unique_ptr::reset(p) with a new deleter d: the old pointer, when not
\* null, is handed to the old deleter.
reset_elements(w, c, p, d) ==
  LET old == w.vec[c].elements
      w1  == IF old = NULL THEN w
             ELSE IF w.vec[c].deleter = "free" THEN free(w, old)
             ELSE Flag(w, TRUE, "deleter_assert")
  IN [w1 EXCEPT !.vec[c].elements = p, !.vec[c].deleter = d]

\* used_elements_end = p.  The slots of a trivial T that leave
\* [begin, used_end) are no elements any more: the model forgets their bytes,
\* so that they read as garbage if resize_fast exposes them again.
set_used_elements_end(w, c, p) ==
  LET old == w.vec[c].used_elements_end
      w1  == IF is_trivial /\ p < old /\ p >= w.vec[c].elements
               THEN poke(w, p, [i \in 1..((old - p) \div SizeofT) |-> Raw])
               ELSE w
  IN [w1 EXCEPT !.vec[c].used_elements_end = p]

\* a destructor loop that runs from new_size upwards
destroy_forward(w, c, new_size) ==
  LET p == w.vec[c].elements + new_size * SizeofT
  IN [destroy(w, p, size(w, c) - new_size)
        EXCEPT !.vec[c].used_elements_end = p]

\* while (used_elements_end != elements.get() + new_size)
\*   (--used_elements_end)->~T();
destroy_backward(w, c, new_size) ==
  LET p == w.vec[c].elements + new_size * SizeofT
      released == size(w, c) - new_size
  IN [destroy(w, p, released)
        EXCEPT !.vec[c].used_elements_end = p,
               !.log = w.log \o [i \in 1..released |->
                                   Destructions(p, released)[released + 1 - i]]]

\* a clear that destructs the elements and keeps the block
clear_keeps_block(w, c) ==
  IF w.vec[c].elements # NULL /\ ~is_trivial
    THEN destroy_backward(w, c, 0)
    ELSE set_used_elements_end(w, c, w.vec[c].elements)

\* AlignedVector::clear
clear(w, c) ==
  LET release(w1) ==
        [reset_elements(w1, c, NULL, w1.vec[c].deleter)
           EXCEPT !.vec[c].used_elements_end = NULL,
                  !.vec[c].allocated_elements_end = NULL]
  IN release(IF w.vec[c].elements # NULL /\ ~is_trivial
               THEN destroy_backward(w, c, 0) ELSE w)

\* reserve: if (new_allocated_size > old_allocated_size)
needs_reallocation_or_equal(new_allocated_size, old_allocated_size) ==
  new_allocated_size >= old_allocated_size

needs_reallocation(new_allocated_size, old_allocated_size) ==
  new_allocated_size > old_allocated_size

\* reserve: new_size = std::max(new_allocated_size, 2 * old_allocated_size)
new_capacity_exact(new_allocated_size, old_allocated_size) ==
  new_allocated_size

new_capacity(new_allocated_size, old_allocated_size) ==
  Max(new_allocated_size, 2 * old_allocated_size)

\* reserve that treats new_allocated_size == 0 like any other small argument
reserve_keeps_on_zero(w, c, new_allocated_size) ==
  LET old_size           == size(w, c)
      old_allocated_size == capacity(w, c)
  IN IF needs_reallocation(new_allocated_size, old_allocated_size)
       THEN LET new_size == new_capacity(new_allocated_size,
                                         old_allocated_size)
                new_data == BlockBase(FreshBlock(w))
                migrate(w1) == AlignedVectorMove(w1, w1.vec[c].elements,
                                                 old_size, new_data)
            IN [reset_elements(
                  migrate(posix_memalign(w, FreshBlock(w), new_size)),
                  c, new_data, "free")
                EXCEPT
                  !.vec[c].used_elements_end = new_data + old_size * SizeofT,
                  !.vec[c].allocated_elements_end =
                     new_data + new_size * SizeofT]
       ELSE w

\* AlignedVector::reserve; the call is entered in the log
reserve(w0, c, new_allocated_size) ==
  LET decide(w) ==
        LET old_size           == size(w, c)
            old_allocated_size == capacity(w, c)
        IN IF needs_reallocation(new_allocated_size, old_allocated_size)
             THEN LET new_size == new_capacity(new_allocated_size,
                                               old_allocated_size)
                      new_data == BlockBase(FreshBlock(w))
                      migrate(w1) ==
                        IF new_allocated_size > 0
                          THEN AlignedVectorMove(w1, w1.vec[c].elements,
                                                 old_size, new_data)
                          ELSE w1
                      \* an exception leaves through the destructor of the
                      \* local new_data, which frees the new block
                      install(w2) ==
                        IF Thrown(w2) THEN free(w2, new_data)
                        ELSE [reset_elements(w2, c, new_data, "free")
                              EXCEPT
                                !.vec[c].used_elements_end =
                                   new_data + old_size * SizeofT,
                                !.vec[c].allocated_elements_end =
                                   new_data + new_size * SizeofT]
                  IN install(migrate(posix_memalign(w, FreshBlock(w), new_size)))
             ELSE IF new_allocated_size = 0 THEN clear(w, c)
             ELSE w
  IN decide([w0 EXCEPT !.log = Append(@, [ev |-> "reserve",
                                          at |-> new_allocated_size])])

\* a resize that sets used_elements_end without reserving first
resize_common_no_reserve(w, c, new_size) ==
  LET set_end(w2) ==
        set_used_elements_end(w2, c, w2.vec[c].elements + new_size * SizeofT)
  IN set_end(IF ~is_trivial /\ new_size < size(w, c)
               THEN destroy_backward(w, c, new_size) ELSE w)

\* the part the three resize functions share: destruct the released elements
\* backwards, reserve, set used_elements_end
resize_common(w, c, new_size) ==
  LET set_end(w2) ==
        IF Thrown(w2) THEN w2
        ELSE set_used_elements_end(w2, c,
                                   w2.vec[c].elements + new_size * SizeofT)
  IN set_end(reserve(IF ~is_trivial /\ new_size < size(w, c)
                       THEN destroy_backward(w, c, new_size) ELSE w,
                     c, new_size))

\* a resize_fast that leaves the new slots of a non-trivial T unconstructed
resize_fast_no_initialize(w, c, new_size, garbage) ==
  resize_common(w, c, new_size)

\* AlignedVector::resize_fast.  For a trivial T the new slots are left as
\* they are: a slot that was never written holds indeterminate bytes, which
\* read as garbage[i], any value of T.
resize_fast(w, c, new_size, garbage) ==
  LET old_size == size(w, c)
      expose(w1, p) ==
        IF ~is_trivial
          THEN AlignedVectorDefaultInitialize(w1, TRUE, new_size - old_size, p)
          ELSE poke(w1, p,
                    [i \in 1..(new_size - old_size) |->
                       IF peek(w1, p, new_size - old_size)[i] = Raw
                         THEN garbage[i]
                         ELSE peek(w1, p, new_size - old_size)[i]])
      grow(w1) ==
        IF new_size > old_size /\ ~Thrown(w1)
          THEN expose(w1, w1.vec[c].elements + old_size * SizeofT)
          ELSE w1
  IN grow(resize_common(w, c, new_size))

\* AlignedVector::resize(new_size)
resize(w, c, new_size) ==
  LET old_size == size(w, c)
      grow(w1) ==
        IF new_size > old_size /\ ~Thrown(w1)
          THEN AlignedVectorDefaultInitialize(
                 w1, TRUE, new_size - old_size,
                 w1.vec[c].elements + old_size * SizeofT)
          ELSE w1
  IN grow(resize_common(w, c, new_size))

\* AlignedVector::resize(new_size, init)
resize_init(w, c, new_size, init) ==
  LET old_size == size(w, c)
      grow(w1) ==
        IF new_size > old_size /\ ~Thrown(w1)
          THEN AlignedVectorSet(w1, TRUE, new_size - old_size, init,
                                w1.vec[c].elements + old_size * SizeofT)
          ELSE w1
  IN grow(resize_common(w, c, new_size))

\* An exception that leaves a constructor body: the destructor is not run,
\* the members are destructed, and the unique_ptr elements hands its pointer
\* to its deleter; the object never comes to exist.
unwind(w, c) ==
  IF Thrown(w)
    THEN [reset_elements(w, c, NULL, "assert") EXCEPT !.vec[c] = NoVec]
    ELSE w

\* AlignedVector::AlignedVector(size, init), on the members of a
\* default-constructed object
construct_sized(w, c, n, init) ==
  LET body(w0) == IF n > 0 THEN resize_init(w0, c, n, init) ELSE w0
  IN unwind(body([w EXCEPT !.vec[c] = EmptyVec]), c)

\* a copy constructor that copies the three pointers instead of the elements
copy_construct_shallow(w, c, v) ==
  [w EXCEPT !.vec[c] = [w.vec[v] EXCEPT !.exists = TRUE]]

\* AlignedVector::AlignedVector(const AlignedVector &vec)
copy_construct(w, c, v) ==
  LET allocate(w0) == reserve(w0, c, size(w0, v))
      set_end(w1)  ==
        set_used_elements_end(w1, c, w1.vec[c].allocated_elements_end)
      copy(w2) == AlignedVectorCopy(w2, w2.vec[v].elements, size(w2, v),
                                    w2.vec[c].elements)
  IN unwind(copy(set_end(allocate([w EXCEPT !.vec[c] = EmptyVec]))), c)

\* AlignedVector::AlignedVector(AlignedVector &&vec)
move_construct(w, c, v) ==
  [w EXCEPT !.vec[c] = [w.vec[v] EXCEPT !.exists = TRUE],
            !.vec[v].elements = NULL,
            !.vec[v].used_elements_end = NULL,
            !.vec[v].allocated_elements_end = NULL]

\* a copy assignment that takes over the three pointers of the source
copy_assign_shallow(w, c, v, garbage) ==
  [w EXCEPT !.vec[c] = w.vec[v]]

\* AlignedVector::operator=(const AlignedVector &vec)
copy_assign(w, c, v, garbage) ==
  LET make_room(w1) == resize_fast(w1, c, size(w1, v), garbage)
      copy(w2) == AlignedVectorCopy(w2, w2.vec[v].elements, size(w2, v),
                                    w2.vec[c].elements)
  IN copy(make_room(resize(w, c, 0)))

\* a move assignment that takes the pointers without clearing first
move_assign_no_clear(w, c, v) ==
  [w EXCEPT !.vec[c] = [w.vec[v] EXCEPT !.exists = TRUE],
            !.vec[v].elements = NULL,
            !.vec[v].used_elements_end = NULL,
            !.vec[v].allocated_elements_end = NULL]

\* AlignedVector::operator=(AlignedVector &&vec)
move_assign(w, c, v) ==
  LET \* elements = std::move(vec.elements): vec releases its pointer, this
      \* object resets to it and takes the deleter
      take(w1) == reset_elements([w1 EXCEPT !.vec[v].elements = NULL], c,
                                 w1.vec[v].elements, w1.vec[v].deleter)
      set_ends(w2) ==
        [w2 EXCEPT
           !.vec[c].used_elements_end = w2.vec[v].used_elements_end,
           !.vec[c].allocated_elements_end = w2.vec[v].allocated_elements_end,
           !.vec[v].used_elements_end = NULL,
           !.vec[v].allocated_elements_end = NULL]
  IN set_ends(take(clear(w, c)))

\* AlignedVector::~AlignedVector
destruct(w, c) == [clear(w, c) EXCEPT !.vec[c] = NoVec]

\* a push_back that never grows the block
push_back_no_grow(w, c, in_data) ==
  LET p  == w.vec[c].used_elements_end
      w2 == IF ~is_trivial THEN construct(w, p, <<in_data>>)
                           ELSE poke(w, p, <<in_data>>)
  IN [w2 EXCEPT !.vec[c].used_elements_end = p + SizeofT]

\* a push_back that asks for room for one more element only
push_back_grow_by_one(w, c, in_data) ==
  LET store(w1, p) ==
        set_used_elements_end(
          IF ~is_trivial THEN construct(w1, p, <<in_data>>)
                         ELSE poke(w1, p, <<in_data>>),
          c, p + SizeofT)
      append(w1) == store(w1, w1.vec[c].used_elements_end)
  IN append(IF w.vec[c].used_elements_end = w.vec[c].allocated_elements_end
              THEN reserve(w, c, capacity(w, c) + 1)
              ELSE w)

\* a push_back whose first block has room for a single element
push_back_min_one(w, c, in_data) ==
  LET store(w1, p) ==
        set_used_elements_end(
          IF ~is_trivial THEN construct(w1, p, <<in_data>>)
                         ELSE poke(w1, p, <<in_data>>),
          c, p + SizeofT)
      append(w1) == store(w1, w1.vec[c].used_elements_end)
  IN append(IF w.vec[c].used_elements_end = w.vec[c].allocated_elements_end
              THEN reserve(w, c, Max(2 * capacity(w, c), 1))
              ELSE w)

\* AlignedVector::push_back
push_back(w, c, in_data) ==
  LET store(w1, p) ==
        set_used_elements_end(
          IF ~is_trivial THEN construct(w1, p, <<in_data>>)
                         ELSE poke(w1, p, <<in_data>>),
          c, p + SizeofT)
      append(w1) == store(w1, w1.vec[c].used_elements_end)
  IN append(IF w.vec[c].used_elements_end = w.vec[c].allocated_elements_end
              THEN reserve(w, c, Max(2 * capacity(w, c), MinPushBackCap))
              ELSE w)

\* an insert_back that appends the range in reverse order
insert_back_reversed(w, c, begin, count) ==
  LET old_size == size(w, c)
      copy(w2, p) ==
        set_used_elements_end(
          poke(w2, p, [i \in 1..count |->
                         peek(w2, begin, count)[count + 1 - i]]),
          c, p + count * SizeofT)
      append(w1) == copy(w1, w1.vec[c].used_elements_end)
  IN append(reserve(w, c, old_size + count))

\* AlignedVector::insert_back(begin, begin + count)
insert_back(w, c, begin, count) ==
  LET old_size == size(w, c)
      copy(w2, p) ==
        set_used_elements_end(
          IF ~is_trivial THEN assign(w2, p, peek(w2, begin, count))
                         ELSE poke(w2, p, peek(w2, begin, count)),
          c, p + count * SizeofT)
      default_construct(w1, p) ==
        copy(IF ~is_trivial
               THEN construct(w1, p, [i \in 1..count |-> T_Default])
               ELSE w1,
             p)
      append(w1) == default_construct(w1, w1.vec[c].used_elements_end)
  IN append(reserve(w, c, old_size + count))

\* AlignedVector::fill()
fill(w, c) ==
  AlignedVectorDefaultInitialize(w, FALSE, size(w, c), w.vec[c].elements)

\* a fill that sets the whole block, not only the elements
fill_value_to_capacity(w, c, value) ==
  AlignedVectorSet(w, FALSE, capacity(w, c), value, w.vec[c].elements)

\* AlignedVector::fill(value)
fill_value(w, c, value) ==
  AlignedVectorSet(w, FALSE, size(w, c), value, w.vec[c].elements)

\* a swap that exchanges elements and allocated_elements_end only
swap_keeps_used_end(w, c, v) ==
  [w EXCEPT !.vec[c] = [w.vec[v] EXCEPT
                          !.used_elements_end = w.vec[c].used_elements_end],
            !.vec[v] = [w.vec[c] EXCEPT
                          !.used_elements_end = w.vec[v].used_elements_end]]

\* AlignedVector::swap
swap(w, c, v) == [w EXCEPT !.vec[c] = w.vec[v], !.vec[v] = w.vec[c]]

\* AlignedVector::save: the archive gets the count and, if the count is not
\* zero, the elements
save(w, c) ==
  LET vec_size == size(w, c)
  IN [count |-> vec_size,
      payload |-> IF vec_size > 0 THEN peek(w, w.vec[c].elements, vec_size)
                                  ELSE <<>>]

\* a load that takes the count for the index of the last element
load_one_short(w, c, ar) ==
  IF ar.count > 0
    THEN LET read(w1) == IF is_trivial
                           THEN poke(w1, w1.vec[c].elements, ar.payload)
                           ELSE assign(w1, w1.vec[c].elements, ar.payload)
             set_end(w2) ==
               set_used_elements_end(
                 w2, c, w2.vec[c].elements + (ar.count - 1) * SizeofT)
         IN set_end(read(reserve(w, c, ar.count)))
    ELSE w

\* AlignedVector::load: ar is the archive, a count followed by the payload.
\* Reading the array from an archive that holds fewer elements than the
\* count stores the elements there are and ends in the archive's exception,
\* before used_elements_end is set.
load(w, c, ar) ==
  IF ar.count > 0
    THEN LET read(w1) == IF is_trivial
                           THEN poke(w1, w1.vec[c].elements, ar.payload)
                           ELSE assign(w1, w1.vec[c].elements, ar.payload)
             set_end(w2) ==
               IF Len(ar.payload) < ar.count
                 THEN Flag(w2, TRUE, "archive_exception")
                 ELSE set_used_elements_end(
                        w2, c, w2.vec[c].elements + ar.count * SizeofT)
         IN set_end(read(reserve(w, c, ar.count)))
    ELSE w

\* AssertIndexRange(index, range): the check passes when index < range;
\* otherwise the programmer error is raised and the caller does not go on.
AssertIndexRange(index, range) == index < range

\* AlignedVector::operator[] used to write: elements[index] = value, after
\* AssertIndexRange(index, size()); for an index that is not below size()
\* the programmer error is raised and nothing is stored.
set_element(w, c, index, value) ==
  IF ~AssertIndexRange(index, size(w, c))
    THEN Flag(w, TRUE, "ExcIndexRange")
    ELSE IF is_trivial
      THEN poke(w, w.vec[c].elements + index * SizeofT, <<value>>)
      ELSE assign(w, w.vec[c].elements + index * SizeofT, <<value>>)

\* The result of an element access: the index of the slot the returned
\* reference names and the value there, or the programmer error.
Returned(w, c, slot) ==
  [fault |-> FALSE, slot |-> <<slot>>,
   value |-> peek(w, w.vec[c].elements + slot * SizeofT, 1)[1]]
ExcIndexRange == [fault |-> TRUE, slot |-> <<>>, value |-> 0]

\* an operator[] that checks the index against the capacity
operator_index_within_capacity(w, c, index) ==
  IF AssertIndexRange(index, capacity(w, c))
    THEN Returned(w, c, index)
    ELSE ExcIndexRange

\* AlignedVector::operator[] const
operator_index(w, c, index) ==
  IF AssertIndexRange(index, size(w, c))
    THEN Returned(w, c, index)
    ELSE ExcIndexRange

\* AlignedVector::back: *(used_elements_end - 1)
back(w, c) ==
  IF AssertIndexRange(0, size(w, c))
    THEN Returned(w, c, (w.vec[c].used_elements_end - SizeofT
                           - w.vec[c].elements) \div SizeofT)
    ELSE ExcIndexRange

\* ------------------------------------------------------------- the system
\* The state an operation starts from: the containers and the heap, no fault
\* raised, no element moved, no block allocated or released yet.
Cur == [vec |-> vec, heap |-> heap, err |-> {}, moved |-> 0, freed |-> 0,
        allocated |-> 0, leaked |-> 0, fuel |-> -1, log |-> <<>>,
        indeterminate |-> [i \in 1..MaxN |-> T_Default]]

Op(name, c, v, n, x, ar) ==
  [op |-> name, self |-> c, other |-> v, n |-> n, v |-> x, ar |-> ar]

\* The state after an operation that ended in the world w.
Apply(w, l) ==
  /\ vec' = w.vec
  /\ heap' = w.heap
  /\ err' = w.err
  /\ last' = IF recording
               THEN [op |-> l.op, self |-> l.self, other |-> l.other,
                     n |-> l.n, v |-> l.v, ar |-> l.ar, moved |-> w.moved,
                     freed |-> w.freed, allocated |-> w.allocated,
                     leaked |-> w.leaked]
               ELSE last
  /\ UNCHANGED <<is_trivial, recording>>

Commit(w, l) ==
  Apply(w, l) /\ UNCHANGED <<run, archive, scenario, par, twin>>

\* The archive before anything was saved: it holds no count and no payload.
\* orig is what the container held when save wrote the archive, intact
\* whether the archive is still as save wrote it.
NoArchive == [count |-> 0, payload |-> <<>>, orig |-> <<>>, intact |-> FALSE]

\* The second run of the program before any container is constructed.
NoTwin == [vec |-> [c \in Vecs |-> NoVec],
           heap |-> [b \in 1..MaxBlocks |-> FreeBlock],
           pending |-> [op |-> "none", self |-> NoVecId, other |-> NoVecId,
                        n |-> 0, v |-> 0, ar |-> <<>>]]

\* No bulk primitive in progress.
NoPar == [phase |-> "idle", kind |-> "none", size |-> 0, element |-> 0,
          inline |-> TRUE, tasks |-> {}, hits |-> <<>>, start |-> <<>>,
          overlapped |-> FALSE, long_double |-> FALSE, zero_fill |-> FALSE]

\* The test scenario has not started.
NoScenario == [pc |-> "none", marked |-> 0, v5 |-> 0, v6 |-> 0]

\* No push_back run in progress.
NoRun == [from_empty |-> FALSE, pushes |-> 0, reallocations |-> 0]

Live   == {c \in Vecs : vec[c].exists}
Absent == {c \in Vecs : ~vec[c].exists}
\* what count indeterminate slots may read as
Garbage(count) == [1..count -> T_Values]
Archives == UNION {{[count |-> k, payload |-> s] : s \in [1..k -> T_Values]}
                     : k \in 0..MaxN}

\* No container constructed yet, nothing allocated; T is either kind of type.
InitState(rec) ==
  /\ vec = [c \in Vecs |-> NoVec]
  /\ heap = [b \in 1..MaxBlocks |-> FreeBlock]
  /\ is_trivial \in BOOLEAN
  /\ err = {}
  /\ last = [op |-> "init", self |-> NoVecId, other |-> NoVecId, n |-> 0, v |-> 0,
             ar |-> <<>>, moved |-> 0, freed |-> 0, allocated |-> 0,
             leaked |-> 0]
  /\ recording = rec
  /\ run = NoRun
  /\ archive = NoArchive
  /\ scenario = NoScenario
  /\ par = NoPar
  /\ twin = NoTwin

Init    == InitState(FALSE)
InitRec == InitState(TRUE)

\* Each action performs one public operation on a container of V.
DefaultConstruct(V) ==
  \E c \in V \cap Absent :
    Commit([Cur EXCEPT !.vec[c] = EmptyVec],
           Op("construct", c, NoVecId, 0, 0, <<>>))

SizedConstruct(V) ==
  \E c \in V \cap Absent, n \in 0..MaxN, init \in T_Values :
    /\ CanAllocate(Cur)
    /\ Commit(construct_sized(Cur, c, n, init),
              Op("construct_sized", c, NoVecId, n, init, <<>>))

CopyConstruct(V) ==
  \E c \in V \cap Absent, v \in V \cap Live :
    /\ CanAllocate(Cur)
    /\ Commit(copy_construct(Cur, c, v), Op("copy_construct", c, v, 0, 0, <<>>))

MoveConstruct(V) ==
  \E c \in V \cap Absent, v \in V \cap Live :
    Commit(move_construct(Cur, c, v), Op("move_construct", c, v, 0, 0, <<>>))

Destruct(V) ==
  \E c \in V \cap Live :
    Commit(destruct(Cur, c), Op("destruct", c, NoVecId, 0, 0, <<>>))

CopyAssign(V) ==
  \E c \in V \cap Live, v \in V \cap Live : \E g \in Garbage(size(Cur, v)) :
    /\ CanAllocate(Cur)
    /\ Commit(copy_assign(Cur, c, v, g), Op("copy_assign", c, v, 0, 0, <<>>))

MoveAssign(V) ==
  \E c \in V \cap Live : \E v \in (V \cap Live) \ {c} :
    Commit(move_assign(Cur, c, v), Op("move_assign", c, v, 0, 0, <<>>))

ResizeFast(V) ==
  \E c \in V \cap Live, n \in 0..MaxN :
  \E g \in Garbage(IF is_trivial THEN Max(n - size(Cur, c), 0) ELSE 0) :
    /\ CanAllocate(Cur)
    /\ Commit(resize_fast(Cur, c, n, g),
              Op("resize_fast", c, NoVecId, n, 0, <<>>))

Resize(V) ==
  \E c \in V \cap Live, n \in 0..MaxN :
    /\ CanAllocate(Cur)
    /\ Commit(resize(Cur, c, n), Op("resize", c, NoVecId, n, 0, <<>>))

ResizeInit(V) ==
  \E c \in V \cap Live, n \in 0..MaxN, init \in T_Values :
    /\ CanAllocate(Cur)
    /\ Commit(resize_init(Cur, c, n, init),
              Op("resize_init", c, NoVecId, n, init, <<>>))

Reserve(V) ==
  \E c \in V \cap Live, n \in 0..(MaxN + 1) :
    /\ CanAllocate(Cur)
    /\ Commit(reserve(Cur, c, n), Op("reserve", c, NoVecId, n, 0, <<>>))

Clear(V) ==
  \E c \in V \cap Live :
    Commit(clear(Cur, c), Op("clear", c, NoVecId, 0, 0, <<>>))

PushBack(V) ==
  \E c \in V \cap Live, x \in T_Values :
    /\ CanAllocate(Cur)
    /\ size(Cur, c) < MaxN
    /\ Commit(push_back(Cur, c, x), Op("push_back", c, NoVecId, 0, x, <<>>))

InsertBack(V) ==
  \E c \in V \cap Live : \E v \in (V \cap Live) \ {c} :
    /\ CanAllocate(Cur)
    /\ size(Cur, c) + size(Cur, v) <= MaxN
    /\ Commit(insert_back(Cur, c, vec[v].elements, size(Cur, v)),
              Op("insert_back", c, v, 0, 0, <<>>))

Fill(V) ==
  \E c \in V \cap Live :
    Commit(fill(Cur, c), Op("fill", c, NoVecId, 0, 0, <<>>))

FillValue(V) ==
  \E c \in V \cap Live, x \in T_Values :
    Commit(fill_value(Cur, c, x), Op("fill_value", c, NoVecId, 0, x, <<>>))

Swap(V) ==
  \E c \in V \cap Live : \E v \in (V \cap Live) \ {c} :
    Commit(swap(Cur, c, v), Op("swap", c, v, 0, 0, <<>>))

Load(V) ==
  \E c \in V \cap Live, ar \in Archives :
    /\ CanAllocate(Cur)
    /\ Commit(load(Cur, c, ar),
              Op("load", c, NoVecId, ar.count, 0, ar.payload))

SetElement(V) ==
  \E c \in V \cap Live, i \in 0..(MaxN - 1), x \in T_Values :
    /\ i < size(Cur, c)                      \* AssertIndexRange(index, size())
    /\ Commit(set_element(Cur, c, i, x),
              Op("set_element", c, NoVecId, i, x, <<>>))

\* The program with both containers: every public operation.
Next ==
  \/ DefaultConstruct(Vecs) \/ SizedConstruct(Vecs) \/ CopyConstruct(Vecs)
  \/ MoveConstruct(Vecs) \/ Destruct(Vecs) \/ CopyAssign(Vecs)
  \/ MoveAssign(Vecs) \/ ResizeFast(Vecs) \/ Resize(Vecs) \/ ResizeInit(Vecs)
  \/ Reserve(Vecs) \/ Clear(Vecs) \/ PushBack(Vecs) \/ InsertBack(Vecs)
  \/ Fill(Vecs) \/ FillValue(Vecs) \/ Swap(Vecs) \/ Load(Vecs)
  \/ SetElement(Vecs)

Spec == Init /\ [][Next]_vars

\* The program with the single container a: the operations that involve no
\* second container.
One == {"a"}

NextOne ==
  \/ DefaultConstruct(One) \/ SizedConstruct(One) \/ Destruct(One)
  \/ ResizeFast(One) \/ Resize(One) \/ ResizeInit(One) \/ Reserve(One)
  \/ Clear(One) \/ PushBack(One) \/ Fill(One) \/ FillValue(One)
  \/ Load(One) \/ SetElement(One)

SpecOne == InitRec /\ [][NextOne]_vars

\* The program with both containers, keeping the record of the last
\* operation: the operations on two containers, and the operations that build
\* and change the containers they work on.
NextTwo ==
  \/ SizedConstruct(Vecs) \/ CopyConstruct(Vecs) \/ MoveConstruct(Vecs)
  \/ Destruct(Vecs) \/ CopyAssign(Vecs) \/ MoveAssign(Vecs)
  \/ Swap(Vecs) \/ InsertBack(Vecs)
  \/ Resize(Vecs) \/ Clear(Vecs) \/ PushBack(Vecs) \/ SetElement(Vecs)

SpecTwo == InitRec /\ [][NextTwo]_vars

\* The program that constructs the container a and appends to it, one
\* push_back after the other; run counts the appends and the allocations
\* they make.  The values appended alternate, as in the test.
PushedValue(k) == k % (MaxVal + 1)

StartRun(V) ==
  \E c \in V \cap Absent :
    /\ Apply([Cur EXCEPT !.vec[c] = EmptyVec],
             Op("construct", c, NoVecId, 0, 0, <<>>))
    /\ run' = [from_empty |-> TRUE, pushes |-> 0, reallocations |-> 0]
    /\ UNCHANGED <<archive, scenario, par, twin>>

StartRunSized(V) ==
  \E c \in V \cap Absent, n \in 1..MaxN, init \in T_Values :
    /\ CanAllocate(Cur)
    /\ Apply(construct_sized(Cur, c, n, init),
             Op("construct_sized", c, NoVecId, n, init, <<>>))
    /\ run' = [from_empty |-> FALSE, pushes |-> 0, reallocations |-> 0]
    /\ UNCHANGED <<archive, scenario, par, twin>>

PushBackRun(V) ==
  \E c \in V \cap Live :
    LET x == PushedValue(run.pushes)
        step(w) ==
          /\ Apply(w, Op("push_back", c, NoVecId, 0, x, <<>>))
          /\ run' = [run EXCEPT !.pushes = @ + 1,
                                !.reallocations = @ + w.allocated]
    IN /\ CanAllocate(Cur)
       /\ run.pushes < MaxPush
       /\ step(push_back(Cur, c, x))
       /\ UNCHANGED <<archive, scenario, par, twin>>

EndRun(V) ==
  \E c \in V \cap Live :
    /\ Apply(destruct(Cur, c), Op("destruct", c, NoVecId, 0, 0, <<>>))
    /\ run' = NoRun
    /\ UNCHANGED <<archive, scenario, par, twin>>

\* save writes the archive; the archive may be damaged before it is read:
\* its count replaced by one the payload does not cover; load reads it.
Save(V) ==
  \E c \in V \cap Live :
    LET ar == save(Cur, c) IN
    /\ archive' = [count |-> ar.count, payload |-> ar.payload,
                   orig |-> contents(Cur, c), intact |-> TRUE]
    /\ Apply(Cur, Op("save", c, NoVecId, ar.count, 0, ar.payload))
    /\ UNCHANGED <<run, scenario, par, twin>>

Corrupt ==
  \E k \in 1..(MaxN + 1) :
    /\ archive.intact
    /\ k > Len(archive.payload)
    /\ archive' = [archive EXCEPT !.count = k, !.intact = FALSE]
    /\ Apply(Cur, Op("corrupt", NoVecId, NoVecId, k, 0, archive.payload))
    /\ UNCHANGED <<run, scenario, par, twin>>

LoadArchive(V) ==
  \E c \in V \cap Live :
    /\ CanAllocate(Cur)
    /\ archive # NoArchive
    /\ Apply(load(Cur, c, archive),
             Op("load", c, NoVecId, archive.count, 0, archive.payload))
    /\ UNCHANGED <<run, archive, scenario, par, twin>>

\* The program that builds the container a and saves it, and loads the
\* archive into the container b.
Other == Vecs \ One

NextArchive ==
  \/ SizedConstruct(One) \/ SetElement(One) \/ Destruct(One) \/ Save(One)
  \/ Corrupt
  \/ DefaultConstruct(Other) \/ LoadArchive(Other) \/ Destruct(Other)

SpecArchive == InitRec /\ [][NextArchive]_vars

\* The scenario on the container a: construct it empty, resize_fast(4),
\* resize(4), set index 2 to a marked value, push_back twice.
ScenarioStep(to, w, l) ==
  /\ Apply(w, l)
  /\ scenario' = [scenario EXCEPT !.pc = to]
  /\ UNCHANGED <<run, archive, par, twin>>

ScenarioStart ==
  \E marked \in T_Values \ {T_Default}, v5 \in T_Values, v6 \in T_Values :
    /\ scenario.pc = "none" /\ "a" \in Absent
    /\ Apply([Cur EXCEPT !.vec["a"] = EmptyVec],
             Op("construct", "a", NoVecId, 0, 0, <<>>))
    /\ scenario' = [pc |-> "constructed", marked |-> marked,
                    v5 |-> v5, v6 |-> v6]
    /\ UNCHANGED <<run, archive, par, twin>>

ScenarioResizeFast ==
  \E g \in Garbage(IF is_trivial THEN ScenarioSize ELSE 0) :
    /\ scenario.pc = "constructed"
    /\ ScenarioStep("resized_fast", resize_fast(Cur, "a", ScenarioSize, g),
                    Op("resize_fast", "a", NoVecId, ScenarioSize, 0, <<>>))

ScenarioResize ==
  /\ scenario.pc = "resized_fast"
  /\ ScenarioStep("resized", resize(Cur, "a", ScenarioSize),
                  Op("resize", "a", NoVecId, ScenarioSize, 0, <<>>))

ScenarioMark ==
  /\ scenario.pc = "resized"
  /\ ScenarioStep("marked",
                  set_element(Cur, "a", MarkedIndex, scenario.marked),
                  Op("set_element", "a", NoVecId, MarkedIndex,
                     scenario.marked, <<>>))

ScenarioPushFirst ==
  /\ scenario.pc = "marked"
  /\ ScenarioStep("pushed", push_back(Cur, "a", scenario.v5),
                  Op("push_back", "a", NoVecId, 0, scenario.v5, <<>>))

ScenarioPushSecond ==
  /\ scenario.pc = "pushed"
  /\ ScenarioStep("done", push_back(Cur, "a", scenario.v6),
                  Op("push_back", "a", NoVecId, 0, scenario.v6, <<>>))

ScenarioEnd ==
  /\ scenario.pc = "done"
  /\ Apply(destruct(Cur, "a"), Op("destruct", "a", NoVecId, 0, 0, <<>>))
  /\ scenario' = NoScenario
  /\ UNCHANGED <<run, archive, par, twin>>

NextScenario ==
  \/ ScenarioStart \/ ScenarioResizeFast \/ ScenarioResize \/ ScenarioMark
  \/ ScenarioPushFirst \/ ScenarioPushSecond \/ ScenarioEnd

SpecScenario == InitRec /\ [][NextScenario]_vars

\* ------------------------------------------- a bulk primitive on its own
\* One of the four bulk primitives is called on a range of size elements:
\* source block 1 (copy and move), destination block 2.  A task is a
\* subrange [begin, end) with the index next of the element its loop
\* handles next.
BulkKinds == {"copy", "move", "set_construct", "set_assign",
              "default_construct", "default_assign"}
BulkSource      == BlockBase(1)
BulkDestination == BlockBase(2)
BulkValue(i) == i % (MaxVal + 1)

\* The blocks at the call: the source holds objects, the destination raw
\* memory, or objects when the primitive assigns.
BulkStartHeap(kind, count) ==
  [b \in 1..MaxBlocks |->
     IF b = 1 /\ kind \in {"copy", "move"}
       THEN [status |-> "allocated", cap |-> count,
             data |-> [i \in 1..count |-> BulkValue(i)]]
     ELSE IF b = 2
       THEN [status |-> "allocated", cap |-> count,
             data |-> [i \in 1..count |->
                         IF kind \in {"set_assign", "default_assign"}
                           THEN BulkValue(i) ELSE Raw]]
     ELSE FreeBlock]

\* The primitive's constructor run to completion by one thread.
BulkSerial(w, kind, count, element) ==
  IF kind = "copy"
    THEN AlignedVectorCopy(w, BulkSource, count, BulkDestination)
  ELSE IF kind = "move"
    THEN AlignedVectorMove(w, BulkSource, count, BulkDestination)
  ELSE IF kind \in {"set_construct", "set_assign"}
    THEN AlignedVectorSet(w, kind \in {"set_construct", "default_construct"}, count, element,
                          BulkDestination)
  ELSE AlignedVectorDefaultInitialize(w, kind \in {"set_construct", "default_construct"}, count,
                                      BulkDestination)

\* The primitive's apply_to_subrange(begin, end).
BulkSubrange(w, kind, element, begin, end) ==
  IF kind = "copy"
    THEN AlignedVectorCopy_apply_to_subrange(w, BulkSource, BulkDestination,
                                             begin, end)
  ELSE IF kind = "move"
    THEN AlignedVectorMove_apply_to_subrange(w, BulkSource, BulkDestination,
                                             begin, end)
  ELSE IF kind \in {"set_construct", "set_assign"}
    THEN AlignedVectorSet_apply_to_subrange(w, kind \in {"set_construct", "default_construct"},
                                            element, BulkDestination,
                                            begin, end)
  ELSE AlignedVectorDefaultInitialize_apply_to_subrange(
         w, kind \in {"set_construct", "default_construct"}, BulkDestination, begin, end)

Task(begin, end) == [begin |-> begin, end |-> end, next |-> begin]

\* Slot i of the source or of the destination differs between the heaps.
Touched(h0, h1, i) ==
  \E b \in {1, 2} :
    /\ i <= h0[b].cap /\ i <= h1[b].cap
    /\ h0[b].data[i] # h1[b].data[i]

\* The primitive's constructor up to the dispatch: below the grain size the
\* caller runs apply_to_subrange(0, size) itself, otherwise the range goes
\* to apply_parallel.
ParStart ==
  /\ par.phase = "idle"
  /\ \E kind \in BulkKinds, count \in 0..MaxLen, element \in T_Values :
       /\ kind \in {"set_construct", "set_assign"} \/ element = 0
       /\ par' = [phase |-> "running", kind |-> kind, size |-> count,
                  element |-> element,
                  inline |-> count < minimum_parallel_grain_size,
                  tasks |-> {Task(0, count)},
                  hits |-> [i \in 1..count |-> 0],
                  start |-> BulkStartHeap(kind, count),
                  overlapped |-> FALSE, long_double |-> FALSE,
                  zero_fill |-> FALSE]
       /\ Apply([Cur EXCEPT !.heap = BulkStartHeap(kind, count)],
                Op("bulk_start", NoVecId, NoVecId, count, element, <<>>))
  /\ UNCHANGED <<run, archive, scenario, twin>>

\* A range can be split as long as it is longer than the grain size.
is_divisible(t) == t.end - t.begin > minimum_parallel_grain_size

\* apply_parallel: a range no worker has started on is split in two halves.
ParSplit ==
  /\ par.phase = "running" /\ ~par.inline
  /\ \E t \in par.tasks :
       /\ t.next = t.begin /\ is_divisible(t)
       /\ par' = [par EXCEPT !.tasks =
                    (@ \ {t}) \cup
                    {Task(t.begin, t.begin + (t.end - t.begin) \div 2),
                     Task(t.begin + (t.end - t.begin) \div 2, t.end)}]
       /\ Apply(Cur, Op("bulk_split", NoVecId, NoVecId, t.begin, t.end, <<>>))
  /\ UNCHANGED <<run, archive, scenario, twin>>

\* The thread that runs apply_to_subrange(t.begin, t.end) handles the next
\* element of its subrange.
ParWork ==
  /\ par.phase = "running"
  /\ \E t \in par.tasks :
       /\ t.next < t.end
       /\ LET done(w) ==
                /\ par' = [par EXCEPT
                     !.tasks = (@ \ {t}) \cup {[t EXCEPT !.next = @ + 1]},
                     !.hits = [i \in DOMAIN @ |->
                                 IF i = t.next + 1 \/ Touched(heap, w.heap, i)
                                   THEN @[i] + 1 ELSE @[i]],
                     !.overlapped = @ \/ \E s \in par.tasks \ {t} :
                                           s.begin < s.next /\ s.next < s.end]
                /\ Apply(w, Op("bulk_work", NoVecId, NoVecId, t.next,
                               par.element, <<>>))
          IN done(BulkSubrange(Cur, par.kind, par.element, t.next, t.next + 1))
  /\ UNCHANGED <<run, archive, scenario, twin>>

\* apply_parallel returns once every subrange is finished.
ParJoin ==
  /\ par.phase = "running"
  /\ \A t \in par.tasks : t.next = t.end
  /\ par' = [par EXCEPT !.phase = "joined"]
  /\ Apply(Cur, Op("bulk_join", NoVecId, NoVecId, par.size, par.element, <<>>))
  /\ UNCHANGED <<run, archive, scenario, twin>>

\* The caller goes on; the blocks are no longer looked at.
ParEnd ==
  /\ par.phase = "joined"
  /\ par' = NoPar
  /\ Apply([Cur EXCEPT !.heap = [b \in 1..MaxBlocks |-> FreeBlock]],
           Op("bulk_end", NoVecId, NoVecId, 0, 0, <<>>))
  /\ UNCHANGED <<run, archive, scenario, twin>>

NextPar == ParStart \/ ParSplit \/ ParWork \/ ParJoin \/ ParEnd

SpecPar == InitRec /\ [][NextPar]_vars

\* ------------------------------------------- constructors of T that throw
\* The operations that construct elements, with a T whose constructor throws
\* after fuel more constructions; fuel -1 is a constructor that never throws.
Fuel == -1..(MaxN - 1)
Throwing(fuel, indeterminate) ==
  [Cur EXCEPT !.fuel = fuel, !.indeterminate = indeterminate]

\* What the slots of [begin, used_end) of container v that hold no object
\* (an earlier construction threw) may read as: every choice of values when
\* there is such a slot; nothing indeterminate is read when there is none.
Unconstructed(v) ==
  IF \E i \in 1..size(Cur, v) : contents(Cur, v)[i] = Raw
    THEN Garbage(MaxN)
    ELSE {Cur.indeterminate}

ThrowingSizedConstruct(V) ==
  \E c \in V \cap Absent, n \in 0..MaxN, init \in T_Values, fuel \in Fuel :
    /\ CanAllocate(Cur)
    /\ Commit(construct_sized(Throwing(fuel, Cur.indeterminate), c, n, init),
              Op("construct_sized", c, NoVecId, n, init, <<>>))

ThrowingCopyConstruct(V, W) ==
  \E c \in W \cap Absent, v \in V \cap Live, fuel \in Fuel :
  \E u \in Unconstructed(v) :
    /\ CanAllocate(Cur)
    /\ Commit(copy_construct(Throwing(fuel, u), c, v),
              Op("copy_construct", c, v, 0, 0, <<>>))

ThrowingResizeFast(V) ==
  \E c \in V \cap Live, n \in 0..MaxN, fuel \in Fuel :
  \E g \in Garbage(IF is_trivial THEN Max(n - size(Cur, c), 0) ELSE 0) :
  \E u \in Unconstructed(c) :
    /\ CanAllocate(Cur)
    /\ Commit(resize_fast(Throwing(fuel, u), c, n, g),
              Op("resize_fast", c, NoVecId, n, 0, <<>>))

ThrowingResize(V) ==
  \E c \in V \cap Live, n \in 0..MaxN, fuel \in Fuel :
  \E u \in Unconstructed(c) :
    /\ CanAllocate(Cur)
    /\ Commit(resize(Throwing(fuel, u), c, n),
              Op("resize", c, NoVecId, n, 0, <<>>))

ThrowingResizeInit(V) ==
  \E c \in V \cap Live, n \in 0..MaxN, init \in T_Values, fuel \in Fuel :
  \E u \in Unconstructed(c) :
    /\ CanAllocate(Cur)
    /\ Commit(resize_init(Throwing(fuel, u), c, n, init),
              Op("resize_init", c, NoVecId, n, init, <<>>))

ThrowingReserve(V) ==
  \E c \in V \cap Live, n \in 0..(MaxN + 1), fuel \in Fuel :
  \E u \in Unconstructed(c) :
    /\ CanAllocate(Cur)
    /\ Commit(reserve(Throwing(fuel, u), c, n),
              Op("reserve", c, NoVecId, n, 0, <<>>))

NextThrow ==
  \/ ThrowingSizedConstruct(One)
  \/ ThrowingCopyConstruct(One, Other)
  \/ ThrowingResizeFast(One)
  \/ ThrowingResize(One)
  \/ ThrowingResizeInit(One)
  \/ ThrowingReserve(One)
  \/ Destruct(Vecs)

SpecThrow == InitRec /\ [][NextThrow]_vars

\* ------------------------------------------------------- element access
\* An access leaves the container as it is; the step records what the call
\* returned, or the programmer error in err.
Access(r, l) ==
  Commit(Flag(Cur, r.fault, "ExcIndexRange"),
         [l EXCEPT !.v = r.value, !.ar = r.slot])

Index(V) ==
  \E c \in V \cap Live, index \in 0..(MaxN + 1) :
    Access(operator_index(Cur, c, index),
           Op("index", c, NoVecId, index, 0, <<>>))

Back(V) ==
  \E c \in V \cap Live :
    Access(back(Cur, c), Op("back", c, NoVecId, 0, 0, <<>>))

NextAccess ==
  \/ SizedConstruct(One) \/ Reserve(One) \/ ResizeFast(One) \/ PushBack(One)
  \/ SetElement(One) \/ Destruct(One) \/ Index(One) \/ Back(One)

SpecAccess == InitRec /\ [][NextAccess]_vars

\* ------------------------------------------- the two kinds of T side by side
\* The same program is run twice, once with a trivial T and once with a
\* non-trivial T: (vec, heap) is the run that is_trivial describes, twin the
\* other run.  A call is made in the first run, the runs change places, and
\* the same call is made in the second run, so that each run is always
\* evaluated with its own kind of T.
\* The calls with defined values the program can make in the current state.
Calls ==
  {Op("construct_sized", c, NoVecId, n, x, <<>>) :
     c \in Absent, n \in 0..MaxN, x \in T_Values}
  \cup {Op(o, c, v, 0, 0, <<>>) :
          o \in {"copy_construct", "move_construct"}, c \in Absent, v \in Live}
  \cup {Op(o, c, NoVecId, 0, 0, <<>>) :
          o \in {"destruct", "clear", "fill"}, c \in Live}
  \cup {Op(o, c, NoVecId, n, 0, <<>>) :
          o \in {"resize", "reserve"}, c \in Live, n \in 0..MaxN}
  \cup {Op("resize_init", c, NoVecId, n, x, <<>>) :
          c \in Live, n \in 0..MaxN, x \in T_Values}
  \cup {Op("fill_value", c, NoVecId, 0, x, <<>>) : c \in Live, x \in T_Values}
  \cup {Op("push_back", c, NoVecId, 0, x, <<>>) :
          c \in {d \in Live : size(Cur, d) < MaxN}, x \in T_Values}
  \cup {l \in {Op("insert_back", c, v, 0, 0, <<>>) : c \in Live, v \in Live} :
          /\ l.self # l.other
          /\ size(Cur, l.self) + size(Cur, l.other) <= MaxN}
  \cup {l \in {Op(o, c, v, 0, 0, <<>>) :
                 o \in {"move_assign", "swap"}, c \in Live, v \in Live} :
          l.self # l.other}
  \cup UNION {{Op("copy_assign", c, v, 0, 0, g) : g \in Garbage(size(Cur, v))}
                : c \in Live, v \in Live}

\* The call l made on the containers of w.
Perform(w, l) ==
  CASE l.op = "construct_sized" -> construct_sized(w, l.self, l.n, l.v)
    [] l.op = "copy_construct"  -> copy_construct(w, l.self, l.other)
    [] l.op = "move_construct"  -> move_construct(w, l.self, l.other)
    [] l.op = "destruct"        -> destruct(w, l.self)
    [] l.op = "clear"           -> clear(w, l.self)
    [] l.op = "fill"            -> fill(w, l.self)
    [] l.op = "resize"          -> resize(w, l.self, l.n)
    [] l.op = "reserve"         -> reserve(w, l.self, l.n)
    [] l.op = "resize_init"     -> resize_init(w, l.self, l.n, l.v)
    [] l.op = "resize_fast"     -> resize_fast(w, l.self, l.n, l.ar)
    [] l.op = "fill_value"      -> fill_value(w, l.self, l.v)
    [] l.op = "push_back"       -> push_back(w, l.self, l.v)
    [] l.op = "insert_back"     ->
         insert_back(w, l.self, w.vec[l.other].elements, size(w, l.other))
    [] l.op = "move_assign"     -> move_assign(w, l.self, l.other)
    [] l.op = "swap"            -> swap(w, l.self, l.other)
    [] l.op = "copy_assign"     -> copy_assign(w, l.self, l.other, l.ar)

TwinFirst ==
  /\ twin.pending = NoTwin.pending
  /\ CanAllocate(Cur)
  /\ \E l \in Calls : \E r \in {Perform(Cur, l)} :
       /\ twin' = [vec |-> r.vec, heap |-> r.heap, pending |-> l]
       /\ vec' = twin.vec /\ heap' = twin.heap /\ err' = r.err
       /\ is_trivial' = ~is_trivial
  /\ UNCHANGED <<recording, last, run, archive, scenario, par>>

TwinSecond ==
  /\ twin.pending # NoTwin.pending
  /\ \E r \in {Perform(Cur, twin.pending)} :
       /\ vec' = r.vec /\ heap' = r.heap /\ err' = r.err
       /\ twin' = [twin EXCEPT !.pending = NoTwin.pending]
  /\ UNCHANGED <<is_trivial, recording, last, run, archive, scenario, par>>

NextTwin == TwinFirst \/ TwinSecond

SpecTwin == Init /\ [][NextTwin]_vars

\* ------------------------------------------------ the order of destruction
\* A resize or a clear whose step keeps, in last.ar, the log of the
\* destructor calls and reserve calls it made, in the order it made them.
\* resize_fast is called to shrink only; resize grows the container.
LoggedCall(V) ==
  \E l \in {Op(o, c, NoVecId, n, x, <<>>) :
              o \in {"resize_fast", "resize", "resize_init", "clear"},
              c \in V \cap Live,
              n \in 0..MaxN, x \in T_Values} :
    /\ l.op = "resize_init" \/ l.v = 0
    /\ l.op # "clear" \/ l.n = 0
    /\ l.op = "resize_fast" => l.n <= size(Cur, l.self)
    /\ CanAllocate(Cur)
    /\ \E r \in {Perform(Cur, l)} : Commit(r, [l EXCEPT !.ar = r.log])

NextShrink ==
  SizedConstruct(One) \/ LoggedCall(One) \/ SetElement(One) \/ Destruct(One)

SpecShrink == InitRec /\ [][NextShrink]_vars

\* ------------------------------------------------- Set and its zero fill
\* AlignedVectorSet is called on a range of count elements, for a T that is
\* long double or not: SetStart is the range at the call (raw memory when the
\* primitive constructs, elements when it assigns), SetRun the call.  The
\* step keeps whether apply_to_subrange took the memset branch.
SetStart ==
  /\ par.phase \in {"idle", "joined"}
  /\ \E long_double \in BOOLEAN, kind \in {"set_construct", "set_assign"},
        count \in 0..MaxLen, element \in T_Values :
       /\ long_double => is_trivial
       /\ par' = [NoPar EXCEPT !.phase = "running", !.kind = kind,
                               !.size = count, !.element = element,
                               !.long_double = long_double,
                               !.start = BulkStartHeap(kind, count)]
       /\ Apply([Cur EXCEPT !.heap = BulkStartHeap(kind, count)],
                Op("set_start", NoVecId, NoVecId, count, element, <<>>))
  /\ UNCHANGED <<run, archive, scenario, twin>>

SetRun ==
  /\ par.phase = "running"
  /\ par' = [par EXCEPT !.phase = "joined",
                        !.zero_fill = /\ par.size > 0
                                      /\ is_trivial
                                      /\ trivial_element(par.element)]
  /\ Apply(AlignedVectorSet(Cur, par.kind = "set_construct", par.size,
                            par.element, BulkDestination),
           Op("set", NoVecId, NoVecId, par.size, par.element, <<>>))
  /\ UNCHANGED <<run, archive, scenario, twin>>

NextSet == SetStart \/ SetRun

SpecSet == InitRec /\ [][NextSet]_vars

NextPush ==
  \/ StartRun(One) \/ StartRunSized(One) \/ PushBackRun(One) \/ EndRun(One)

SpecPush == InitRec /\ [][NextPush]_vars

\* ----------------------------------------------------------- type sanity
TypeOK ==
  /\ is_trivial \in BOOLEAN
  /\ run.from_empty \in BOOLEAN
  /\ run.pushes \in 0..MaxPush /\ run.reallocations \in 0..MaxPush
  /\ archive.count \in 0..(MaxN + 1) /\ archive.intact \in BOOLEAN
  /\ scenario.pc \in {"none", "constructed", "resized_fast", "resized",
                      "marked", "pushed", "done"}
  /\ Len(archive.payload) <= MaxN
  /\ par.phase \in {"idle", "running", "joined"}
  /\ par.size \in 0..MaxLen /\ par.inline \in BOOLEAN
  /\ \A t \in par.tasks : t.begin <= t.next /\ t.next <= t.end
  /\ recording \in BOOLEAN
  /\ \A c \in Vecs : vec[c].deleter \in {"assert", "free"}
  /\ \A b \in 1..MaxBlocks :
       /\ heap[b].status \in {"free", "allocated"}
       /\ Len(heap[b].data) = heap[b].cap
       /\ \A i \in 1..heap[b].cap : heap[b].data[i] \in T_Values \cup {Raw}

\* ------------------------------------------------- the observable state
TwinCur == [Cur EXCEPT !.vec = twin.vec, !.heap = twin.heap]
Size(c)     == size(Cur, c)
Capacity(c) == capacity(Cur, c)
Contents(c) == contents(Cur, c)
ResizeOps   == {"resize_fast", "resize", "resize_init"}

\* ================================================================ claims

\* C1: in every state reached by any sequence of public operations, every
\* container has begin <= used_end <= allocated_end, that is
\* 0 <= size() <= capacity().
C1_PointerOrder ==
  \A c \in Vecs :
    /\ vec[c].elements <= vec[c].used_elements_end
    /\ vec[c].used_elements_end <= vec[c].allocated_elements_end
    /\ 0 <= Size(c) /\ Size(c) <= Capacity(c)

\* a container that holds elements and has spare capacity
C1_Witness ==
  \E c \in Vecs :
    /\ vec[c].exists /\ vec[c].elements # NULL
    /\ vec[c].elements < vec[c].used_elements_end
    /\ vec[c].used_elements_end < vec[c].allocated_elements_end

\* C2: resize_fast(n), resize(n) and resize(n, init) return with
\* size() == n and capacity() >= n, from every state and for every n.
C2_ResizePostcondition ==
  last.op \in ResizeOps =>
    /\ Size(last.self) = last.n
    /\ Capacity(last.self) >= last.n

\* a resize_fast that shrank the container and kept its larger block
C2_Witness ==
  /\ last.op = "resize_fast"
  /\ 0 < last.n /\ last.n < Capacity(last.self)
  /\ Size(last.self) = last.n

\* C3: a resize variant that grows a container from size n to m keeps the
\* elements [0,n), also when the grow reallocates; resize(m) makes the new
\* elements [n,m) the default value and resize(m, init) makes them init.
C3_GrowStep ==
  \A c \in Vecs :
    (last'.op \in ResizeOps /\ last'.self = c /\ Size(c) < last'.n) =>
      /\ Size(c)' = last'.n
      /\ \A i \in 1..Size(c) : Contents(c)'[i] = Contents(c)[i]
      /\ last'.op = "resize" =>
           \A i \in (Size(c) + 1)..last'.n : Contents(c)'[i] = T_Default
      /\ last'.op = "resize_init" =>
           \A i \in (Size(c) + 1)..last'.n : Contents(c)'[i] = last'.v

C3_GrowKeepsAndInitialises == [][C3_GrowStep]_vars

\* a resize(m, init) that grew a non-empty container into a new block
C3_Witness ==
  /\ last.op = "resize_init"
  /\ last.moved > 0 /\ last.n > last.moved
  /\ last.v # T_Default

\* C4: reserve(n) with n > 0 never lowers capacity(); reserve(0) leaves
\* capacity() == 0 and size() == 0, the state clear() produces.
C4_ReserveStep ==
  \A c \in Vecs :
    (last'.op = "reserve" /\ last'.self = c) =>
      /\ last'.n > 0 => Capacity(c)' >= Capacity(c)
      /\ last'.n = 0 =>
           /\ Capacity(c)' = 0 /\ Size(c)' = 0
           /\ vec' = clear(Cur, c).vec
           /\ heap' = clear(Cur, c).heap

C4_ReserveCapacity == [][C4_ReserveStep]_vars

\* a reserve(0) that released the block of the container
C4_Witness ==
  last.op = "reserve" /\ last.n = 0 /\ last.freed = 1

\* C5: reserve(n) with n > capacity() leaves capacity() == max(n, 2 * old
\* capacity), keeps size() and the elements, and migrates exactly size()
\* elements.
C5_GrowStep ==
  \A c \in Vecs :
    (last'.op = "reserve" /\ last'.self = c /\ last'.n > Capacity(c)) =>
      /\ Capacity(c)' = Max(last'.n, 2 * Capacity(c))
      /\ Size(c)' = Size(c)
      /\ Contents(c)' = Contents(c)
      /\ last'.moved = Size(c)
      /\ err' = {}

C5_ReserveGrows == [][C5_GrowStep]_vars

\* a reserve that doubled the capacity beyond its argument and migrated
\* elements
C5_Witness ==
  /\ last.op = "reserve"
  /\ Capacity(last.self) > last.n
  /\ last.moved > 0 /\ last.moved < last.n

\* C6: reserve(n) with 0 < n <= capacity() changes nothing: not the three
\* pointers, not the block, not an element.
C6_NoOpStep ==
  \A c \in Vecs :
    (/\ last'.op = "reserve" /\ last'.self = c
     /\ 0 < last'.n /\ last'.n <= Capacity(c)) =>
      /\ vec' = vec
      /\ heap' = heap
      /\ last'.moved = 0 /\ last'.freed = 0

C6_ReserveNoOp == [][C6_NoOpStep]_vars

\* a reserve(n), n below the capacity, on a container holding elements
C6_Witness ==
  /\ last.op = "reserve"
  /\ 0 < last.n /\ last.n < Capacity(last.self)
  /\ Size(last.self) > 0 /\ last.moved = 0

\* C7: clear() leaves the container as a default-constructed one (the three
\* pointers null, size 0, capacity 0, its block released), raises no error,
\* and changes nothing when the container is empty already.
C7_ClearStep ==
  \A c \in Vecs :
    (last'.op = "clear" /\ last'.self = c) =>
      /\ vec'[c].elements = EmptyVec.elements
      /\ vec'[c].used_elements_end = EmptyVec.used_elements_end
      /\ vec'[c].allocated_elements_end = EmptyVec.allocated_elements_end
      /\ Size(c)' = 0 /\ Capacity(c)' = 0
      /\ vec[c].elements # NULL =>
           heap'[BlockOf(vec[c].elements)].status = "free"
      /\ err' = {}
      /\ vec[c].elements = NULL => (vec' = vec /\ heap' = heap)

C7_ClearEmpties == [][C7_ClearStep]_vars

\* a clear() that released the block of a container
C7_Witness ==
  last.op = "clear" /\ last.freed = 1 /\ vec[last.self].elements = NULL

\* C8: copy-constructing B from A makes B equal to A element by element,
\* leaves A as it was and gives B a block of its own; and no operation on
\* one container changes the size or the elements of the other one, unless
\* it is a move from it or a swap with it.
C8_CopyStep ==
  \A c \in Vecs : \A v \in Vecs :
    (last'.op = "copy_construct" /\ last'.self = c /\ last'.other = v) =>
      /\ Size(c)' = Size(v)
      /\ Contents(c)' = Contents(v)
      /\ vec'[v] = vec[v]
      /\ Contents(v)' = Contents(v)
      /\ Size(v) > 0 => vec'[c].elements # vec'[v].elements
      /\ err' = {}

C8_FrameStep ==
  \A x \in Vecs :
    (/\ last'.self # x
     /\ ~(last'.other = x
          /\ last'.op \in {"move_construct", "move_assign", "swap"})) =>
      /\ vec'[x] = vec[x]
      /\ Contents(x)' = Contents(x)

C8_CopyIsIndependent == [][C8_CopyStep /\ C8_FrameStep]_vars

\* a copy construction of a non-empty container
C8_Witness ==
  /\ last.op = "copy_construct"
  /\ Size(last.self) > 0
  /\ Contents(last.self) = Contents(last.other)
  /\ vec[last.self].elements # vec[last.other].elements

\* C9: move construction and move assignment (between distinct containers)
\* give the target the size, the capacity and the elements the source had
\* and leave the source with size 0 and capacity 0; move assignment first
\* releases the block the target held.
C9_MoveStep ==
  \A c \in Vecs : \A v \in Vecs \ {c} :
    (/\ last'.op \in {"move_construct", "move_assign"}
     /\ last'.self = c /\ last'.other = v) =>
      /\ Size(c)' = Size(v)
      /\ Capacity(c)' = Capacity(v)
      /\ Contents(c)' = Contents(v)
      /\ vec'[c].elements = vec[v].elements
      /\ Size(v)' = 0 /\ Capacity(v)' = 0
      /\ vec'[v].elements = NULL
      /\ (last'.op = "move_assign" /\ vec[c].elements # NULL) =>
           /\ heap'[BlockOf(vec[c].elements)].status = "free"
           /\ last'.freed = 1
      /\ err' = {}

C9_MoveTransfers == [][C9_MoveStep]_vars

\* a move assignment of a non-empty container into one that held a block
C9_Witness ==
  /\ last.op = "move_assign"
  /\ last.freed = 1
  /\ Size(last.self) > 0
  /\ vec[last.other].elements = NULL

\* C10: every allocated block is owned by exactly one container (none is
\* shared, none is leaked), every container's block is an allocated one,
\* and no block is released twice or by the wrong routine.
Owners(b) == {c \in Vecs : vec[c].exists /\ vec[c].elements = BlockBase(b)}

C10_ExclusiveOwnership ==
  /\ \A b \in 1..MaxBlocks :
       heap[b].status = "allocated" => Cardinality(Owners(b)) = 1
  /\ \A c \in Vecs :
       vec[c].elements # NULL =>
         /\ vec[c].exists
         /\ \E b \in 1..MaxBlocks :
              vec[c].elements = BlockBase(b) /\ heap[b].status = "allocated"
         /\ vec[c].deleter = "free"
  /\ "bad_free" \notin err
  /\ "deleter_assert" \notin err
  /\ "bad_access" \notin err

\* both containers own a block, and a third block is free again
C10_Witness ==
  /\ \A c \in Vecs : vec[c].exists /\ vec[c].elements # NULL
  /\ Cardinality({vec[c].elements : c \in Vecs}) = Cardinality(Vecs)
  /\ \E b \in 1..MaxBlocks : heap[b].status = "free" /\ b < MaxBlocks

\* C11: push_back(v) raises size() by exactly one, makes the last element v
\* and keeps the elements before it; the capacity becomes
\* max(2 * old capacity, 16) when the container was full (size() ==
\* capacity()) and stays as it was otherwise.
C11_PushStep ==
  \A c \in Vecs :
    (last'.op = "push_back" /\ last'.self = c) =>
      /\ Size(c)' = Size(c) + 1
      /\ Contents(c)'[Size(c) + 1] = last'.v
      /\ \A i \in 1..Size(c) : Contents(c)'[i] = Contents(c)[i]
      /\ Capacity(c)' = IF Size(c) = Capacity(c)
                          THEN Max(2 * Capacity(c), MinPushBackCap)
                          ELSE Capacity(c)
      /\ err' = {}

C11_PushBackAppends == [][C11_PushStep]_vars

\* a push_back on a full container of 16 elements, whose capacity doubled
C11_Witness ==
  /\ last.op = "push_back"
  /\ last.allocated = 1 /\ last.moved = MinPushBackCap
  /\ Capacity(last.self) = 2 * MinPushBackCap
  /\ Contents(last.self)[Size(last.self)] = last.v

\* C12: in a run of N consecutive push_back calls on a container constructed
\* empty, a call allocates only when it finds size() == capacity(), the
\* capacities reached are 16, 32, 64, ... (each the double of the one
\* before), and the number of allocations after N calls is at most
\* ceil(log2(max(N, 16) / 16)) + 1.
RECURSIVE CeilLog2(_, _)
\* the least k with den * 2^k >= num
CeilLog2(num, den) == IF den >= num THEN 0 ELSE 1 + CeilLog2(num, 2 * den)

ReallocationBound(N) ==
  CeilLog2(Max(N, MinPushBackCap), MinPushBackCap) + 1

C12_RunStep ==
  \A c \in Vecs :
    (last'.op = "push_back" /\ last'.self = c /\ run.from_empty) =>
      /\ run'.pushes = run.pushes + 1
      /\ Size(c)' = run'.pushes
      /\ last'.allocated > 0 => Size(c) = Capacity(c)
      /\ run'.reallocations = run.reallocations + last'.allocated
      /\ Capacity(c)' = IF last'.allocated = 0 THEN Capacity(c)
                        ELSE IF Capacity(c) = 0 THEN MinPushBackCap
                        ELSE 2 * Capacity(c)
      /\ \E k \in 0..MaxPush : Capacity(c)' = MinPushBackCap * 2^k
      /\ run'.reallocations <= ReallocationBound(run'.pushes)

C12_LogarithmicReallocations == [][C12_RunStep]_vars

\* a run of 33 appends from empty that has allocated three times and reached
\* the capacity 64
C12_Witness ==
  /\ run.from_empty
  /\ run.pushes = 2 * MinPushBackCap + 1
  /\ run.reallocations = 3
  /\ Capacity("a") = 4 * MinPushBackCap

\* C13: fill(v) makes every element v, in particular every index in [0,n)
\* after a resize(n); fill() makes every element the default value; neither
\* changes size(), capacity() or a slot at or beyond size().
C13_FillStep ==
  \A c \in Vecs :
    (last'.op \in {"fill", "fill_value"} /\ last'.self = c) =>
      /\ vec' = vec
      /\ Size(c)' = Size(c) /\ Capacity(c)' = Capacity(c)
      /\ \A b \in 1..MaxBlocks :
           /\ heap'[b].status = heap[b].status /\ heap'[b].cap = heap[b].cap
           /\ \A i \in 1..heap[b].cap :
                (vec[c].elements = BlockBase(b) /\ i <= Size(c))
                  \/ heap'[b].data[i] = heap[b].data[i]
      /\ last'.op = "fill_value" =>
           \A i \in 1..Size(c) : Contents(c)'[i] = last'.v
      /\ (last'.op = "fill_value" /\ last.op = "resize" /\ last.self = c) =>
           \A i \in 1..last.n : Contents(c)'[i] = last'.v
      /\ last'.op = "fill" =>
           \A i \in 1..Size(c) : Contents(c)'[i] = T_Default
      /\ err' = {}

C13_FillSetsEveryElement == [][C13_FillStep]_vars

\* a fill(v), v not the default value, of a container of MaxN elements with
\* spare capacity
C13_Witness ==
  /\ last.op = "fill_value" /\ last.v # T_Default
  /\ Size(last.self) = MaxN /\ Capacity(last.self) > MaxN
  /\ \A i \in 1..MaxN : Contents(last.self)[i] = last.v

\* C14: swap(A, B) gives A the size, the capacity and the elements B had and
\* B those A had, by exchanging the pointers: no block and no slot changes,
\* no element is constructed, moved or destructed.  A second swap restores
\* both containers, and a swap with an empty container leaves the other one
\* empty.
C14_SwapStep ==
  \A c \in Vecs : \A v \in Vecs \ {c} :
    (last'.op = "swap" /\ last'.self = c /\ last'.other = v) =>
      /\ Size(c)' = Size(v) /\ Size(v)' = Size(c)
      /\ Capacity(c)' = Capacity(v) /\ Capacity(v)' = Capacity(c)
      /\ Contents(c)' = Contents(v) /\ Contents(v)' = Contents(c)
      /\ vec'[c].elements = vec[v].elements
      /\ vec'[v].elements = vec[c].elements
      /\ heap' = heap
      /\ last'.moved = 0 /\ last'.freed = 0 /\ last'.allocated = 0
      /\ err' = {}
      /\ swap(Cur, c, v)'.vec = vec /\ swap(Cur, c, v)'.heap = heap
      /\ Size(v) = 0 => Size(c)' = 0
      /\ Size(c) = 0 => Size(v)' = 0

C14_SwapExchanges == [][C14_SwapStep]_vars

\* a swap of a container holding elements with an empty one that is not
\* equal to it in capacity
C14_Witness ==
  /\ last.op = "swap"
  /\ Size(last.self) = 0 /\ Size(last.other) = MaxN
  /\ Capacity(last.self) # Capacity(last.other)

\* C15: save writes the element count followed by exactly that many
\* elements, and nothing after a count of zero; for a trivial T, loading the
\* archive as save wrote it into a fresh container gives the size and, index
\* by index, the elements the saved container had, the empty one included.
C15_SaveStep ==
  \A c \in Vecs :
    (last'.op = "save" /\ last'.self = c) =>
      /\ archive'.count = Size(c)
      /\ Len(archive'.payload) = archive'.count
      /\ \A i \in 1..Size(c) : archive'.payload[i] = Contents(c)[i]
      /\ vec' = vec /\ heap' = heap

C15_LoadStep ==
  \A c \in Vecs :
    (/\ last'.op = "load" /\ last'.self = c
     /\ is_trivial /\ archive.intact
     /\ vec[c] = EmptyVec) =>
      /\ Size(c)' = Len(archive.orig)
      /\ \A i \in 1..Len(archive.orig) : Contents(c)'[i] = archive.orig[i]
      /\ err' = {}

C15_SaveLoadRoundTrip == [][C15_SaveStep /\ C15_LoadStep]_vars

\* a load that gave a fresh container the MaxN elements, not all equal, of
\* the container that was saved
C15_Witness ==
  /\ last.op = "load" /\ is_trivial /\ archive.intact
  /\ last.allocated = 1
  /\ Size(last.self) = MaxN
  /\ Contents(last.self) = archive.orig
  /\ archive.orig[1] # archive.orig[MaxN]

\* C16: load checks the count it read before it reserves: for a count the
\* archive cannot hold (more elements than its payload has) it reports an
\* error and allocates nothing.
C16_LoadStep ==
  \A c \in Vecs :
    (last'.op = "load" /\ last'.self = c /\ last'.n > Len(last'.ar)) =>
      /\ err' # {}
      /\ last'.allocated = 0
      /\ Capacity(c)' = Capacity(c)

C16_LoadValidatesCount == [][C16_LoadStep]_vars

\* C17 as stated: in the scenario, all four elements are the default value
\* after resize_fast(4) and resize(4), and the content at the end is
\* exactly [default, default, marked, default, v5, v6].
C17_ScenarioAsStated ==
  /\ scenario.pc = "resized" =>
        Contents("a") = [i \in 1..ScenarioSize |-> T_Default]
  /\ scenario.pc = "done" =>
        Contents("a") = <<T_Default, T_Default, scenario.marked, T_Default,
                          scenario.v5, scenario.v6>>

\* C17, amended: in the scenario, resize(4) after resize_fast(4) changes no
\* element; the four elements are the default value for a non-trivial T,
\* and what resize_fast left for a trivial T; setting index 2 changes that
\* element only, each push_back appends its value, and the container ends
\* with length 6 and the content [e0, e1, marked, e3, v5, v6], e0, e1, e3
\* being the elements after resize(4).
C17_ScenarioStep ==
  /\ scenario'.pc = "resized" =>
        /\ Size("a")' = ScenarioSize
        /\ Contents("a")' = Contents("a")
        /\ ~is_trivial =>
              Contents("a")' = [i \in 1..ScenarioSize |-> T_Default]
  /\ scenario'.pc = "marked" =>
        Contents("a")' =
          [Contents("a") EXCEPT ![MarkedIndex + 1] = scenario.marked]
  /\ scenario'.pc = "pushed" =>
        Contents("a")' = Append(Contents("a"), scenario.v5)
  /\ scenario'.pc = "done" =>
        /\ Contents("a")' = Append(Contents("a"), scenario.v6)
        /\ Size("a")' = ScenarioSize + 2
        /\ Contents("a")'[MarkedIndex + 1] = scenario.marked
        /\ Contents("a")'[ScenarioSize + 1] = scenario.v5
        /\ Contents("a")'[ScenarioSize + 2] = scenario.v6
        /\ ~is_trivial =>
              Contents("a")' = <<T_Default, T_Default, scenario.marked,
                                 T_Default, scenario.v5, scenario.v6>>
  /\ scenario'.pc # "none" => err' = {}

C17_Scenario == [][C17_ScenarioStep]_vars

\* the end of the scenario for a trivial T whose first element is not the
\* default value
C17_Witness ==
  /\ scenario.pc = "done" /\ is_trivial
  /\ Size("a") = ScenarioSize + 2
  /\ Contents("a")[1] # T_Default
  /\ Contents("a")[MarkedIndex + 1] = scenario.marked

\* C18: a bulk primitive on a range of L elements runs inline on the calling
\* thread when L is below the grain size (160000 / sizeof(T) + 1 in the
\* source) and is handed to the worker pool otherwise; the subranges are
\* pairwise disjoint and cover [0, L); however the workers interleave, no
\* slot is handled by two of them, the call returns only when every subrange
\* is finished, every index has then been handled exactly once, and the
\* blocks are what one thread running the whole range leaves.
C18_ParallelPartitioning ==
  par.phase # "idle" =>
    /\ par.inline = (par.size < minimum_parallel_grain_size)
    /\ par.inline =>
         \E n \in 0..par.size :
           par.tasks = {[begin |-> 0, end |-> par.size, next |-> n]}
    /\ \A s, t \in par.tasks :
         s # t => s.end <= t.begin \/ t.end <= s.begin
    /\ \A i \in 0..(par.size - 1) :
         \E t \in par.tasks : t.begin <= i /\ i < t.end
    /\ \A t \in par.tasks :
         \A i \in t.begin..(t.end - 1) :
           par.hits[i + 1] = IF i < t.next THEN 1 ELSE 0
    /\ err = {}
    /\ par.phase = "joined" =>
         /\ \A t \in par.tasks : t.next = t.end
         /\ \A i \in 1..par.size : par.hits[i] = 1
         /\ heap = BulkSerial([Cur EXCEPT !.heap = par.start], par.kind,
                              par.size, par.element).heap

\* a move of objects of a non-trivial T that was split in three subranges,
\* with two workers in the middle of their subranges at the same time, has
\* returned
C18_Witness ==
  /\ par.phase = "joined" /\ ~par.inline /\ par.overlapped
  /\ par.kind = "move" /\ ~is_trivial
  /\ Cardinality(par.tasks) >= 3

\* every slot counted in [begin, used_end) of a container holds an object
C19_NoUnconstructedElement ==
  \A c \in Vecs :
    vec[c].exists => \A i \in 1..Size(c) : Contents(c)[i] # Raw

\* every object lies in the used range of the container that owns its block
C19_NoElementOutside ==
  \A b \in 1..MaxBlocks :
    \A i \in 1..heap[b].cap :
      heap[b].data[i] # Raw =>
        \E c \in Vecs : /\ vec[c].exists
                        /\ vec[c].elements = BlockBase(b)
                        /\ i <= Size(c)

C19_Sound == C19_NoUnconstructedElement /\ C19_NoElementOutside

C19_GrowOrMigrate ==
  {"construct_sized", "copy_construct", "resize_fast", "resize",
   "resize_init", "reserve"}

\* C19: when a constructor of T throws partway through a grow (the resize
\* functions, the sizing and the copy constructor) or a migration (reserve)
\* of sound containers, the elements constructed so far are destructed
\* before the exception leaves the operation: no object is lost with a
\* released block, no slot in [begin, used_end) is without an object, and no
\* object is left outside [begin, used_end).
C19_ExceptionSafety ==
  [][(/\ ~is_trivial
      /\ C19_Sound
      /\ last'.op \in C19_GrowOrMigrate
      /\ "T_exception" \in err')
       => /\ C19_Sound'
          /\ last'.leaked = 0]_vars

\* C20: operator[] with index i returns element i exactly when i < size(),
\* and back() returns element size() - 1 exactly when size() > 0; every
\* index >= size(), also one below capacity(), and back() on an empty
\* container raise the programmer error and return no slot.
C20_BoundsAsserted ==
  [][/\ last'.op = "index" =>
          IF last'.n < Size(last'.self)
            THEN /\ err' = {}
                 /\ last'.ar = <<last'.n>>
                 /\ last'.v = Contents(last'.self)[last'.n + 1]
            ELSE "ExcIndexRange" \in err' /\ last'.ar = <<>>
     /\ last'.op = "back" =>
          IF Size(last'.self) > 0
            THEN /\ err' = {}
                 /\ last'.ar = <<Size(last'.self) - 1>>
                 /\ last'.v = Contents(last'.self)[Size(last'.self)]
            ELSE "ExcIndexRange" \in err' /\ last'.ar = <<>>]_vars

\* an index at or above size() and below capacity() was refused
C20_Witness ==
  /\ last.op = "index"
  /\ last.n >= Size(last.self) /\ last.n < Capacity(last.self)
  /\ "ExcIndexRange" \in err /\ last.ar = <<>>

\* C21: after every step of the same sequence of operations with defined
\* values (sizing, copy and move construction, resize(n), resize(n, init),
\* reserve, clear, push_back, insert_back, fill, copy and move assignment,
\* swap, destruction), the run on the raw-byte path of a trivial T and the run
\* on the construct/assign/destruct path of a non-trivial T have the same
\* containers with equal size(), capacity() and element values.
C21_FastPathsEquivalent ==
  twin.pending = NoTwin.pending =>
    \A c \in Vecs :
      /\ vec[c].exists = twin.vec[c].exists
      /\ size(Cur, c) = size(TwinCur, c)
      /\ capacity(Cur, c) = capacity(TwinCur, c)
      /\ contents(Cur, c) = contents(TwinCur, c)

\* both runs hold a full container with two different values next to a
\* container with spare capacity
C21_Witness ==
  /\ twin.pending = NoTwin.pending
  /\ \E c \in Vecs : /\ vec[c].exists /\ twin.vec[c].exists
                     /\ Size(c) = MaxN /\ size(TwinCur, c) = MaxN
                     /\ Contents(c)[1] # Contents(c)[MaxN]
  /\ \E c \in Vecs : /\ vec[c].exists /\ twin.vec[c].exists
                     /\ Size(c) > 0 /\ Size(c) < Capacity(c)

\* C22: insert_back with the k elements of another container leaves
\* size() == old size + k and capacity() >= old size + k, keeps the elements
\* [0, old size), makes element old size + j the j-th element of the range,
\* in iteration order, and leaves the source container as it was.
C22_InsertStep ==
  \A c \in Vecs, v \in Vecs :
    (last'.op = "insert_back" /\ last'.self = c /\ last'.other = v) =>
      /\ Size(c)' = Size(c) + Size(v)
      /\ Capacity(c)' >= Size(c) + Size(v)
      /\ \A i \in 1..Size(c) : Contents(c)'[i] = Contents(c)[i]
      /\ \A j \in 1..Size(v) : Contents(c)'[Size(c) + j] = Contents(v)[j]
      /\ Size(v)' = Size(v) /\ Capacity(v)' = Capacity(v)
      /\ Contents(v)' = Contents(v)
      /\ vec'[v] = vec[v]

C22_InsertBackAppendsRange == [][C22_InsertStep]_vars

\* a range of two different elements was appended
C22_Witness ==
  /\ last.op = "insert_back"
  /\ Size(last.other) = MaxN /\ Size(last.self) = MaxN
  /\ Contents(last.other)[1] # Contents(last.other)[MaxN]
  /\ Contents(last.self) = Contents(last.other)

\* C23: copy assignment a = b between two distinct containers, whatever a
\* held before, leaves size(a) == size(b) and a[i] == b[i] for all i, leaves
\* b unchanged, and leaves a and b with blocks of their own.
C23_AssignStep ==
  \A c \in Vecs : \A v \in Vecs \ {c} :
    (last'.op = "copy_assign" /\ last'.self = c /\ last'.other = v) =>
      /\ Size(c)' = Size(v)
      /\ Contents(c)' = Contents(v)
      /\ vec'[v] = vec[v] /\ Contents(v)' = Contents(v)
      /\ Size(v) > 0 =>
           /\ vec'[c].elements # NULL
           /\ BlockOf(vec'[c].elements) # BlockOf(vec'[v].elements)

C23_CopyAssignCopies == [][C23_AssignStep]_vars

\* a full container with two different elements was assigned to the other
\* container
C23_Witness ==
  /\ last.op = "copy_assign" /\ last.self # last.other
  /\ Size(last.other) = MaxN /\ Contents(last.self) = Contents(last.other)
  /\ Contents(last.other)[1] # Contents(last.other)[MaxN]

\* C24: in every reachable state in which a container owns a block
\* (capacity() > 0), the start address of the block is a multiple of 64,
\* whichever operation (reallocation, move, swap, load) gave it the block.
C24_BlockAligned ==
  \A c \in Vecs :
    (vec[c].exists /\ Capacity(c) > 0) =>
      /\ vec[c].elements # NULL
      /\ vec[c].elements % Alignment = 0

\* both containers own a block, the second one at the highest address the
\* allocator hands out
C24_Witness ==
  /\ \A c \in Vecs : vec[c].exists /\ Capacity(c) > 0
  /\ \E c \in Vecs : vec[c].elements = BlockBase(MaxBlocks)

\* the destructor calls among the logged calls
C25_Destructed(log) == SelectSeq(log, LAMBDA e : e.ev = "destroy")

\* destructor calls on the elements from - 1, from - 2, ..., to of c
C25_Descending(c, from, to) ==
  [i \in 1..(from - to) |->
     [ev |-> "destroy", at |-> vec[c].elements + (from - i) * SizeofT]]

\* C25: when resize_fast, resize(n) or resize(n, init) shrinks a container of
\* a non-trivial T from size s to n < s, exactly the elements s-1, s-2, ...,
\* n are destructed, in that order and before reserve is called, and the
\* elements [0, n) are not destructed; clear() destructs s-1 down to 0; for a
\* trivial T no destructor runs.
C25_ShrinkStep ==
  \A c \in Vecs :
    /\ (last'.op \in ResizeOps /\ last'.self = c /\ last'.n < Size(c)) =>
         IF is_trivial
           THEN C25_Destructed(last'.ar) = <<>>
           ELSE /\ C25_Destructed(last'.ar) =
                     C25_Descending(c, Size(c), last'.n)
                /\ SubSeq(last'.ar, 1, Size(c) - last'.n) =
                     C25_Descending(c, Size(c), last'.n)
                /\ last'.ar[Size(c) - last'.n + 1] =
                     [ev |-> "reserve", at |-> last'.n]
    /\ (last'.op = "clear" /\ last'.self = c) =>
         C25_Destructed(last'.ar) =
           IF is_trivial THEN <<>> ELSE C25_Descending(c, Size(c), 0)

C25_DestructsBackward == [][C25_ShrinkStep]_vars

\* a resize function has shrunk a container of a non-trivial T by two
\* elements
C25_Witness ==
  /\ ~is_trivial /\ last.op \in ResizeOps
  /\ Len(C25_Destructed(last.ar)) = MaxN
  /\ last.ar[MaxN + 1].ev = "reserve"

\* C26: for every T, count and value and in both modes (construct, assign),
\* Set with the detection of an all-zero element leaves the destination
\* range as the plain per-element copy of the element leaves it; the zero
\* fill is taken only when T is trivial and not long double.
C26_ZeroFillNeutral ==
  par.phase = "joined" =>
    /\ err = {}
    /\ heap = IF par.size = 0 THEN par.start
              ELSE copy_construct_or_assign(
                     [Cur EXCEPT !.heap = par.start],
                     par.kind = "set_construct", par.size, par.element,
                     BulkDestination).heap
    /\ par.zero_fill => is_trivial /\ ~par.long_double
    /\ par.long_double => ~par.zero_fill

\* the zero fill was taken on a full range of elements that held other values
C26_Witness ==
  /\ par.phase = "joined" /\ par.zero_fill
  /\ par.kind = "set_assign" /\ par.size = MaxLen
  /\ heap # par.start

\* The slots of block b that hold an object of T.
C27_LiveSlots(b) == {i \in 1..heap[b].cap : heap[b].data[i] # Raw}

\* The containers whose elements pointer is the start of block b.
C27_Owners(b) == {c \in Live : vec[c].elements = BlockBase(b)}

\* C27: for a non-trivial T, after every public operation: no element was
\* constructed into a slot that held a live element, none was assigned to or
\* destructed where there was no element, and the live elements of every
\* allocated block are exactly the slots [begin, used_end) of the container
\* that owns it, so that a block is released with no live element in it and
\* nothing is live once the containers are destructed.
C27_ConstructionBalanced ==
  ~is_trivial =>
    /\ err \cap {"construct_over_live", "assign_to_dead", "destroy_dead"} = {}
    /\ \A b \in 1..MaxBlocks :
         heap[b].status = "allocated" =>
           /\ Cardinality(C27_Owners(b)) = 1
           /\ \A c \in C27_Owners(b) : C27_LiveSlots(b) = 1..size(Cur, c)

\* C28: copy-assigning a container to itself (a = a) leaves its size and
\* every element value unchanged.
C28_SelfAssignStep ==
  \A c \in Vecs :
    (last'.op = "copy_assign" /\ last'.self = c /\ last'.other = c) =>
      /\ Size(c)' = Size(c)
      /\ Contents(c)' = Contents(c)

C28_SelfAssignKeeps == [][C28_SelfAssignStep]_vars

\* C29: after a load that completes (the archive holds the count and that
\* many elements), on a container in any prior state, size() is the count
\* read and the elements are the payload read; a count of 0 leaves size() 0.
C29_LoadStep ==
  \A c \in Vecs :
    (last'.op = "load" /\ last'.self = c /\ Len(last'.ar) = last'.n) =>
      /\ Size(c)' = last'.n
      /\ Contents(c)' = last'.ar

C29_LoadSetsSize == [][C29_LoadStep]_vars

====
